---- MODULE Spec2Model ----
(***************************************************************************)
(* Model of the CI helper scripts of shared-ai-standards:                  *)
(*   - parseCodeowners / checkCodeownersApproval / getCoverageData /       *)
(*     analyzeCoverageResults  (diff-cover-check/analyze-coverage-results) *)
(*   - curl_with_retry         (bash retry wrapper)                        *)
(*   - formatPlanComment       (terraform plan PR comment)                 *)
(*                                                                         *)
(* Text is modelled as a sequence of tokens.  Every token stands for a     *)
(* fixed run of characters of one character class, so that the regular     *)
(* expressions and the string methods of the source can be evaluated on    *)
(* the token sequence exactly as they are evaluated on the characters.     *)
(***************************************************************************)
EXTENDS Integers, Sequences, FiniteSets, TLC

VARIABLES
    op,               \* the operation that produced the current state
    codeownersFile,   \* .github/CODEOWNERS on disk: Unreadable or its text
    owners,           \* value returned by the last parseCodeowners call
    pull_request,     \* context.payload.pull_request (Absent outside PR events)
    reviews,          \* result of github.paginate(listReviews), <<>> before any call
    listReviewsCalls, \* number of listReviews lookups made
    approval,         \* value returned by the last checkCodeownersApproval call
    report,           \* coverage/diff-cover.json on disk
    threshold,        \* the threshold argument
    decision,         \* value returned by analyzeCoverageResults
    CURL_RETRY_MAX,   \* environment variable of the retry wrapper
    attempt,          \* local attempt
    exit_code,        \* local exit_code
    curlPc,           \* position inside curl_with_retry
    curlCodes,        \* exit codes of the curl invocations made so far
    returned,         \* return status of curl_with_retry
    comments,         \* the issue comments of the PR, in listing order
    nextId,           \* id the comment store gives to the next created comment
    issue,            \* context.issue.number (Absent outside PR events)
    marker,           \* the marker argument of the invocations
    clock,            \* number of formatPlanComment invocations so far
    lastCall,         \* what the last formatPlanComment invocation did
    planText,         \* the plan text given to shouldCollapsePlan
    collapse          \* the object returned by shouldCollapsePlan

vars == <<op, codeownersFile, owners, pull_request, reviews, listReviewsCalls,
          approval, report, threshold, decision, CURL_RETRY_MAX, attempt,
          exit_code, curlPc, curlCodes, returned, comments, nextId, issue,
          marker, clock, lastCall, planText, collapse>>

gateVars == <<pull_request, reviews, listReviewsCalls, approval, report,
              threshold, decision>>
curlVars == <<CURL_RETRY_MAX, attempt, exit_code, curlPc, curlCodes, returned>>
commentVars == <<comments, nextId, issue, marker, clock, lastCall>>
planVars == <<planText, collapse>>

----------------------------------------------------------------------------
(* Values of the host languages *)

Absent == [t |-> "undefined"]
Null == [t |-> "null"]
NaN == [t |-> "NaN"]
Num(n) == [t |-> "number", v |-> n]
Str == [t |-> "string"]
Has(rec, field) == field \in DOMAIN rec

(* Sequences over S of length at most n *)
SeqUpTo(S, n) == UNION {[1..k -> S] : k \in 0..n}

----------------------------------------------------------------------------
(* CODEOWNERS text *)

\* runs of characters of the class [\w.\-]
WordTokens == {"org", "team", "alice", "bob", "-bot"}
\* single characters outside that class
AT == "@"
SLASH == "/"
HASH == "#"
SPACE == " "
NL == "\n"

IsWord(tok) == tok \in WordTokens

\* String.prototype.split(sep): the pieces between the occurrences of sep
RECURSIVE Split(_, _)
Split(s, sep) ==
    IF \A i \in 1..Len(s) : s[i] # sep
    THEN <<s>>
    ELSE LET k == CHOOSE i \in 1..Len(s) :
                      s[i] = sep /\ \A j \in 1..(i-1) : s[j] # sep
         IN <<SubSeq(s, 1, k-1)>> \o Split(SubSeq(s, k+1, Len(s)), sep)

\* line.startsWith('#')
StartsWithHash(line) == Len(line) > 0 /\ line[1] = HASH

\* !line.trim()
IsBlank(line) == \A i \in 1..Len(line) : line[i] = SPACE

\* end of the maximal run of word tokens that starts at position i
RECURSIVE RunEnd(_, _)
RunEnd(s, i) ==
    IF i + 1 <= Len(s) /\ IsWord(s[i+1]) THEN RunEnd(s, i+1) ELSE i

\* lineWithoutComment.matchAll(/@([\w.\-]+)/g), capture group 1 of every match,
\* scanning from position i
RECURSIVE MatchMentions(_, _)
MatchMentions(s, i) ==
    IF i > Len(s) THEN {}
    ELSE IF s[i] = AT /\ i + 1 <= Len(s) /\ IsWord(s[i+1])
         THEN LET e == RunEnd(s, i+1)
              IN {SubSeq(s, i+1, e)} \cup MatchMentions(s, e+1)
         ELSE MatchMentions(s, i+1)

\* the body of the for loop of parseCodeowners for one line
LineOwners(line) ==
    IF StartsWithHash(line) \/ IsBlank(line) THEN {}
    ELSE MatchMentions(Split(line, HASH)[1], 1)

Unreadable == [t |-> "ENOENT"]

\* parseCodeowners: null when the file cannot be read, else the set of owners
ParseCodeowners(file) ==
    IF file = Unreadable THEN Null
    ELSE LET lines == Split(file.text, NL)
         IN [t |-> "Set",
             members |-> UNION {LineOwners(lines[i]) : i \in 1..Len(lines)}]

File(text) == [t |-> "file", text |-> text]

----------------------------------------------------------------------------
(* GitHub logins, pull requests and reviews *)

BOT == "-bot"

\* the value of pull_request.user?.login when the payload carries no user;
\* it is no token sequence a CODEOWNERS mention or a reviewer login can equal
NoLogin == <<"undefined">>

\* the author's login compared as it is, without the -bot normalisation
StripBot_Identity(login) == login

\* prAuthor?.replace(/-bot$/, '') || ''
StripBot(login) ==
    IF login = NoLogin THEN <<>>
    ELSE IF Len(login) > 0 /\ login[Len(login)] = BOT
         THEN SubSeq(login, 1, Len(login) - 1)
         ELSE login

APPROVED == "APPROVED"
CHANGES_REQUESTED == "CHANGES_REQUESTED"
DISMISSED == "DISMISSED"
COMMENTED == "COMMENTED"
PENDING == "PENDING"

meaningfulStates == {APPROVED, CHANGES_REQUESTED, DISMISSED}

Review(login, state) == [user |-> [login |-> login], state |-> state]

\* the reviews of the PR author kept among the valid reviews
Filter_KeepAuthor(rs, prAuthor) == rs

\* reviews.filter(r => r.user.login !== prAuthor)
RECURSIVE Filter(_, _)
Filter(rs, prAuthor) ==
    IF rs = <<>> THEN <<>>
    ELSE (IF Head(rs).user.login # prAuthor THEN <<Head(rs)>> ELSE <<>>)
         \o Filter(Tail(rs), prAuthor)

\* the Map built by the loop over validReviews: latestReviews.set(login, state)
\* for every review with a meaningful state, in order
RECURSIVE LatestReviews(_, _)
LatestReviews(validReviews, map) ==
    IF validReviews = <<>> THEN map
    ELSE LET review == Head(validReviews)
         IN LatestReviews(Tail(validReviews),
                IF review.state \in meaningfulStates
                THEN (review.user.login :> review.state) @@ map
                ELSE map)

EmptyMap == [x \in {} |-> APPROVED]

\* codeowners.size === 1 && (codeowners.has(prAuthor) || codeowners.has(prAuthorBase))
IsSoleDev(codeowners, prAuthor) ==
    /\ Cardinality(codeowners.members) = 1
    /\ \/ prAuthor \in codeowners.members
       \/ StripBot(prAuthor) \in codeowners.members

\* the part of checkCodeownersApproval after the owner set is known non-empty
ApprovalFromReviews(fetched, codeowners, prAuthor) ==
    IF IsSoleDev(codeowners, prAuthor) THEN TRUE
    ELSE LET latestReviews == LatestReviews(Filter(fetched, prAuthor), EmptyMap)
         IN \E user \in DOMAIN latestReviews :
                latestReviews[user] = APPROVED /\ user \in codeowners.members

\* checkCodeownersApproval failing open on an unreadable CODEOWNERS file
CheckCodeownersApproval_FailOpen(pr, ghReviews, file) ==
    IF pr = Absent
    THEN [called |-> TRUE, result |-> FALSE, reviews |-> <<>>, lookups |-> 0,
          owners |-> Absent]
    ELSE LET codeowners == ParseCodeowners(file)
             prAuthor == pr.user.login
             result == IF codeowners = Null THEN TRUE
                       ELSE IF Cardinality(codeowners.members) = 0 THEN FALSE
                       ELSE ApprovalFromReviews(ghReviews, codeowners, prAuthor)
         IN [called |-> TRUE, result |-> result, reviews |-> ghReviews,
             lookups |-> 1, owners |-> codeowners]

\* checkCodeownersApproval(github, context): the value returned together with
\* the effects of the call (the reviews fetched, the lookups made, the owner
\* set parsed); ghReviews is what listReviews would return for the PR
CheckCodeownersApproval(pr, ghReviews, file) ==
    IF pr = Absent
    THEN [called |-> TRUE, result |-> FALSE, reviews |-> <<>>, lookups |-> 0,
          owners |-> Absent]
    ELSE LET codeowners == ParseCodeowners(file)
             prAuthor == pr.user.login
             result == IF codeowners = Null THEN FALSE
                       ELSE IF Cardinality(codeowners.members) = 0 THEN FALSE
                       ELSE ApprovalFromReviews(ghReviews, codeowners, prAuthor)
         IN [called |-> TRUE, result |-> result, reviews |-> ghReviews,
             lookups |-> 1, owners |-> codeowners]

----------------------------------------------------------------------------
(* Coverage report and gate decision *)

ENOENT == [t |-> "ENOENT"]
InvalidJSON == [t |-> "SyntaxError"]
Json(data) == [t |-> "json", data |-> data]
Bool(b) == [t |-> "boolean", v |-> b]

\* typeof x === 'number'
IsNumber(x) == x.t = "number"

\* getCoverageData as it would be without the crash_fallback field
GetCoverageData_NoCrashField(reportFile) ==
    IF reportFile = ENOENT \/ reportFile = InvalidJSON \/ reportFile.data = Null
    THEN [percent |-> 0, totalLines |-> 0, parseError |-> TRUE]
    ELSE LET data == reportFile.data
         IN IF ~IsNumber(data.total_percent_covered) \/ ~IsNumber(data.total_num_lines)
            THEN [percent |-> 0, totalLines |-> 0, parseError |-> TRUE]
            ELSE [percent |-> data.total_percent_covered.v,
                  totalLines |-> data.total_num_lines.v,
                  parseError |-> FALSE,
                  crashFallback |-> FALSE]

\* getCoverageData(reportPath)
GetCoverageData(reportFile) ==
    IF reportFile = ENOENT \/ reportFile = InvalidJSON \/ reportFile.data = Null
    THEN [percent |-> 0, totalLines |-> 0, parseError |-> TRUE]
    ELSE LET data == reportFile.data
         IN IF ~IsNumber(data.total_percent_covered) \/ ~IsNumber(data.total_num_lines)
            THEN [percent |-> 0, totalLines |-> 0, parseError |-> TRUE]
            ELSE [percent |-> data.total_percent_covered.v,
                  totalLines |-> data.total_num_lines.v,
                  parseError |-> FALSE,
                  crashFallback |-> (data.crash_fallback = Bool(TRUE))]

OVERRIDE_LABEL == "coverage-override"

ReasonInvalid == [text |-> "Coverage report missing or invalid JSON"]
ReasonCrash == [text |-> "diff-cover exited non-zero (LCOV parse error or crash) - coverage check skipped is not permitted"]
ReasonDocOnly == [text |-> "No executable lines to cover (doc/config-only PR)"]
ReasonNeedsApproval == [text |-> "coverage-override label requires CODEOWNERS approval"]
ReasonOverride(pct, thr) == [text |-> "Coverage % below % (override applied)", args |-> <<pct, thr>>]
ReasonBelow(pct, thr) == [text |-> "Coverage % below % threshold", args |-> <<pct, thr>>]

TelemetryEvent(name, pct, thr, hasApproval) ==
    [event |-> name, actual_coverage |-> pct, threshold |-> thr,
     has_approval |-> hasApproval]

NoCall == [called |-> FALSE, result |-> FALSE, reviews |-> <<>>, lookups |-> 0,
           owners |-> Absent]

\* the report is rejected only when it is missing or unparsable, so that an
\* object without the numeric fields yields no decision about failure
InvalidReportDecision_Undecided ==
    [coveragePercent |-> NaN, reason |-> ReasonInvalid, telemetryEvents |-> <<>>]

\* the decision of the parseError branch
InvalidReportDecision ==
    [shouldFail |-> TRUE, coveragePercent |-> NaN, reason |-> ReasonInvalid,
     telemetryEvents |-> <<>>]

\* the decision of the crashFallback branch
CrashDecision ==
    [shouldFail |-> TRUE, coveragePercent |-> NaN, reason |-> ReasonCrash,
     telemetryEvents |-> <<>>]

\* the doc-only branch reporting the measured 0% instead of 100
DocOnlyDecision_Measured ==
    [shouldFail |-> FALSE, coveragePercent |-> Num(0), reason |-> ReasonDocOnly,
     telemetryEvents |-> <<>>]

\* the decision of the totalLines === 0 branch
DocOnlyDecision ==
    [shouldFail |-> FALSE, coveragePercent |-> Num(100), reason |-> ReasonDocOnly,
     telemetryEvents |-> <<>>]

\* any label at all taken for the override label
HasOverrideLabel_AnyLabel(labels) == labels # {}

\* labels.some(l => l.name === 'coverage-override')
HasOverrideLabel(labels) == OVERRIDE_LABEL \in labels

\* the decision of the hasOverrideLabel branch, given the approval
OverrideDecision(coveragePercent, thr, hasApproval) ==
    IF ~hasApproval
    THEN [shouldFail |-> TRUE, reason |-> ReasonNeedsApproval,
          coveragePercent |-> Num(coveragePercent),
          telemetryEvents |->
              <<TelemetryEvent("coverage_override_without_approval",
                               coveragePercent, thr, FALSE)>>]
    ELSE [shouldFail |-> FALSE, reason |-> ReasonOverride(coveragePercent, thr),
          coveragePercent |-> Num(coveragePercent), overrideApplied |-> TRUE,
          telemetryEvents |->
              <<TelemetryEvent("coverage_override_applied",
                               coveragePercent, thr, TRUE)>>]

\* analyzeCoverageResults({reportPath, threshold, context, github}): the
\* decision returned, and the checkCodeownersApproval call it made (NoCall
\* when it made none)
AnalyzeCoverageResults(reportFile, thr, pr, ghReviews, file) ==
    LET cov == GetCoverageData(reportFile)
        coveragePercent == cov.percent
        labels == IF pr = Absent THEN {} ELSE pr.labels
        hasOverrideLabel == HasOverrideLabel(labels)
        belowThreshold == coveragePercent < thr
        call == CheckCodeownersApproval(pr, ghReviews, file)
    IN  IF cov.parseError
        THEN [decision |-> InvalidReportDecision, call |-> NoCall]
        ELSE IF cov.crashFallback
        THEN [decision |-> CrashDecision, call |-> NoCall]
        ELSE IF cov.totalLines = 0
        THEN [decision |-> DocOnlyDecision, call |-> NoCall]
        ELSE IF ~belowThreshold
        THEN [decision |-> [shouldFail |-> FALSE,
                            coveragePercent |-> Num(coveragePercent),
                            telemetryEvents |-> <<>>],
              call |-> NoCall]
        ELSE IF hasOverrideLabel
        THEN [decision |-> OverrideDecision(coveragePercent, thr, call.result),
              call |-> call]
        ELSE [decision |-> [shouldFail |-> TRUE,
                            reason |-> ReasonBelow(coveragePercent, thr),
                            coveragePercent |-> Num(coveragePercent),
                            telemetryEvents |-> <<>>],
              call |-> NoCall]

----------------------------------------------------------------------------
(* curl_with_retry *)

\* CURLE_COULDNT_CONNECT, CURLE_OPERATION_TIMEDOUT, CURLE_RECV_ERROR
CURLE_COULDNT_CONNECT == 7
CURLE_OPERATION_TIMEDOUT == 28
CURLE_RECV_ERROR == 56
\* non-retryable codes of the model: CURLE_COULDNT_RESOLVE_HOST, CURLE_HTTP_RETURNED_ERROR
CURLE_COULDNT_RESOLVE_HOST == 6
CURLE_HTTP_RETURNED_ERROR == 22

\* the case "$exit_code" in 7|28|56) arm
Retryable(code) ==
    code \in {CURLE_COULDNT_CONNECT, CURLE_OPERATION_TIMEDOUT, CURLE_RECV_ERROR}

CurlExitCodes ==
    {0, CURLE_COULDNT_CONNECT, CURLE_OPERATION_TIMEDOUT, CURLE_RECV_ERROR,
     CURLE_COULDNT_RESOLVE_HOST, CURLE_HTTP_RETURNED_ERROR}

----------------------------------------------------------------------------
(* Terraform plan comment *)

\* lines of plan text; every token is one whole line
L_ONLY_UPDATES == "Plan: 0 to add, 1 to change, 0 to destroy."
L_WITH_ADD == "Plan: 1 to add, 1 to change, 0 to destroy."
L_WITH_DESTROY == "Plan: 0 to add, 1 to change, 1 to destroy."
L_NO_CHANGE == "Plan: 0 to add, 0 to change, 0 to destroy."
L_TEN_UPDATES == "Plan: 0 to add, 10 to change, 0 to destroy."
L_CHANGE_SHA == "      ~ content_sha256 = \"aaa\" -> \"bbb\""
L_CHANGE_CONTENT == "      ~ content = \"old code\" -> \"new code\""
L_CHANGE_NAME == "      ~ name = \"old\" -> \"new\""
L_CHANGE_COMPUTED == "      ~ id = \"abc\" -> (known after apply)"
L_UNSET == "      ~ ttl = 60 -> null"
L_ADD_VALUE == "      + binding = \"kv\""
L_ADD_COMPUTED == "      + status = (known after apply)"
L_ADD_UNINDENTED == "+ binding = \"kv\""
L_DEL_VALUE == "      - binding = \"removed\""
L_DEL_ARROW == "      - name = \"x\" -> null"
L_DEL_BLOCK == "      - tags = ["
L_CREATED == "  # cloudflare_record.www will be created"
L_DESTROYED == "  # cloudflare_record.old will be destroyed"
L_REPLACED == "  # cloudflare_worker.api must be replaced"
L_BLANK == ""
L_TEXT == "Terraform will perform the following actions:"

\* the plan lines of the comments posted by formatPlanComment
PlanLines == {L_ONLY_UPDATES, L_WITH_ADD, L_CHANGE_SHA, L_CHANGE_NAME, L_CREATED}

\* the plan lines shouldCollapsePlan is applied to
ClassifiedLines ==
    {L_ONLY_UPDATES, L_WITH_ADD, L_WITH_DESTROY, L_NO_CHANGE, L_TEN_UPDATES,
     L_CHANGE_SHA, L_CHANGE_CONTENT, L_CHANGE_NAME, L_CHANGE_COMPUTED, L_UNSET,
     L_ADD_VALUE, L_ADD_COMPUTED, L_ADD_UNINDENTED, L_DEL_VALUE, L_DEL_ARROW,
     L_DEL_BLOCK, L_CREATED, L_DESTROYED, L_REPLACED, L_BLANK, L_TEXT}

SummaryLine(add, change, destroy) ==
    [kind |-> "summary", add |-> add, change |-> change, destroy |-> destroy]
\* an attribute line: leading whitespace or none, the sign, the attribute name
\* and the form of what follows the "=":
\*   "value"           a value                      "kv"
\*   "computed"        the placeholder              (known after apply)
\*   "arrow_value"     old -> new                   "aaa" -> "bbb"
\*   "arrow_computed"  old -> placeholder           "abc" -> (known after apply)
\*   "arrow_null"      old -> null                  60 -> null
\*   "block"           the opener of a list/object  [
AttrLine(indent, sign, name, rhs) ==
    [kind |-> "attr", indent |-> indent, sign |-> sign, name |-> name, rhs |-> rhs]
MarkerLine(text) == [kind |-> "marker", text |-> text]
OtherLine(kind) == [kind |-> kind]

\* the characters of each line, as far as the patterns of shouldCollapsePlan
\* tell them apart; the counts of a summary line are their digits
LineFacts(line) ==
    CASE line = L_ONLY_UPDATES    -> SummaryLine(<<0>>, <<1>>, <<0>>)
      [] line = L_WITH_ADD        -> SummaryLine(<<1>>, <<1>>, <<0>>)
      [] line = L_WITH_DESTROY    -> SummaryLine(<<0>>, <<1>>, <<1>>)
      [] line = L_NO_CHANGE       -> SummaryLine(<<0>>, <<0>>, <<0>>)
      [] line = L_TEN_UPDATES     -> SummaryLine(<<0>>, <<1, 0>>, <<0>>)
      [] line = L_CHANGE_SHA      -> AttrLine(TRUE, "~", "content_sha256", "arrow_value")
      [] line = L_CHANGE_CONTENT  -> AttrLine(TRUE, "~", "content", "arrow_value")
      [] line = L_CHANGE_NAME     -> AttrLine(TRUE, "~", "name", "arrow_value")
      [] line = L_CHANGE_COMPUTED -> AttrLine(TRUE, "~", "id", "arrow_computed")
      [] line = L_UNSET           -> AttrLine(TRUE, "~", "ttl", "arrow_null")
      [] line = L_ADD_VALUE       -> AttrLine(TRUE, "+", "binding", "value")
      [] line = L_ADD_COMPUTED    -> AttrLine(TRUE, "+", "status", "computed")
      [] line = L_ADD_UNINDENTED  -> AttrLine(FALSE, "+", "binding", "value")
      [] line = L_DEL_VALUE       -> AttrLine(TRUE, "-", "binding", "value")
      [] line = L_DEL_ARROW       -> AttrLine(TRUE, "-", "name", "arrow_null")
      [] line = L_DEL_BLOCK       -> AttrLine(TRUE, "-", "tags", "block")
      [] line = L_CREATED         -> MarkerLine("will be created")
      [] line = L_DESTROYED       -> MarkerLine("will be destroyed")
      [] line = L_REPLACED        -> MarkerLine("must be replaced")
      [] line = L_BLANK           -> OtherLine("blank")
      [] line = L_TEXT            -> OtherLine("text")

\* parseInt of a run of digits
RECURSIVE ParseInt(_)
ParseInt(digits) ==
    IF digits = <<>> THEN 0
    ELSE 10 * ParseInt(SubSeq(digits, 1, Len(digits) - 1)) + digits[Len(digits)]

\* JavaScript truthiness and && on the values null, true, false
Truthy(x) == x = Bool(TRUE)
JsAnd(x, y) == IF Truthy(x) THEN y ELSE x
JsNot(x) == Bool(~Truthy(x))

\* plan.match(/Plan: (\d+) to add, (\d+) to change, (\d+) to destroy/): the
\* first match in the text, null when there is none
SummaryMatch(plan) ==
    LET summaries == {i \in 1..Len(plan) : LineFacts(plan[i]).kind = "summary"}
    IN IF summaries = {} THEN Null
       ELSE LineFacts(plan[CHOOSE i \in summaries : \A j \in summaries : i <= j])

\* summaryMatch && summaryMatch[1] === '0' && summaryMatch[3] === '0' &&
\* parseInt(summaryMatch[2]) > 0
HasOnlyUpdates(plan) ==
    LET summaryMatch == SummaryMatch(plan)
    IN IF summaryMatch = Null THEN Null
       ELSE Bool(/\ summaryMatch.add = <<0>>
                 /\ summaryMatch.destroy = <<0>>
                 /\ ParseInt(summaryMatch.change) > 0)

\* changePattern matches in line i: "~", whitespace, the name, "=", an old
\* value, "->", and then something other than the placeholder
ChangeMatches(plan, i) ==
    LET l == LineFacts(plan[i])
    IN /\ l.kind = "attr"
       /\ l.sign = "~"
       /\ l.rhs \in {"arrow_value", "arrow_null"}

\* the loop of changePattern.exec: the captured names, in text order
RECURSIVE ChangedAttrs(_, _)
ChangedAttrs(plan, i) ==
    IF i > Len(plan) THEN <<>>
    ELSE (IF ChangeMatches(plan, i) THEN <<LineFacts(plan[i]).name>> ELSE <<>>)
         \o ChangedAttrs(plan, i + 1)

\* ^\s+ under the m flag ends right before the sign of line i: the line is
\* indented, or the lines before it back to some line start are whitespace
\* only (\s also matches the line breaks)
SignAfterLineStartSpace(plan, i) ==
    \/ LineFacts(plan[i]).indent
    \/ i > 1 /\ LineFacts(plan[i - 1]).kind = "blank"

\* /^\s+\+\s+\w+\s*=\s*(?!\s*\(known after apply\)).+/m
HasRealAdditions(plan) ==
    \E i \in 1..Len(plan) :
        LET l == LineFacts(plan[i])
        IN /\ l.kind = "attr"
           /\ l.sign = "+"
           /\ SignAfterLineStartSpace(plan, i)
           /\ l.rhs # "computed"

\* /^\s+-\s+\w+\s*=\s*(?!.*->)(?!.*[\[{]\s*$).+$/m
HasRealDeletions(plan) ==
    \E i \in 1..Len(plan) :
        LET l == LineFacts(plan[i])
        IN /\ l.kind = "attr"
           /\ l.sign = "-"
           /\ SignAfterLineStartSpace(plan, i)
           /\ l.rhs \in {"value", "computed"}

codeAttrs == {"content_sha256", "content"}

\* plan.includes(text) for the three marker texts
PlanIncludes(plan, text) ==
    \E i \in 1..Len(plan) :
        LineFacts(plan[i]).kind = "marker" /\ LineFacts(plan[i]).text = text

\* the check for replaced resources left out
HasResourceChanges_NoReplaced(plan) ==
    \/ PlanIncludes(plan, "will be created")
    \/ PlanIncludes(plan, "will be destroyed")

\* hasResourceChanges
HasResourceChanges(plan) ==
    \/ PlanIncludes(plan, "will be created")
    \/ PlanIncludes(plan, "will be destroyed")
    \/ PlanIncludes(plan, "must be replaced")

\* shouldCollapsePlan(plan): the object returned
ShouldCollapsePlan(plan) ==
    LET hasOnlyUpdates == HasOnlyUpdates(plan)
        changedAttrs == ChangedAttrs(plan, 1)
        hasRealAdditions == HasRealAdditions(plan)
        hasRealDeletions == HasRealDeletions(plan)
        isWorkerCodeOnly ==
            JsAnd(hasOnlyUpdates,
            JsAnd(Bool(~hasRealAdditions),
            JsAnd(Bool(~hasRealDeletions),
            JsAnd(Bool(Len(changedAttrs) > 0),
                  Bool(\A k \in 1..Len(changedAttrs) : changedAttrs[k] \in codeAttrs)))))
        hasResourceChanges == HasResourceChanges(plan)
        shouldCollapse == JsNot(JsNot(JsAnd(isWorkerCodeOnly, Bool(~hasResourceChanges))))
    IN [shouldCollapse |-> shouldCollapse, hasOnlyUpdates |-> hasOnlyUpdates,
        changedAttrs |-> changedAttrs, hasRealAdditions |-> Bool(hasRealAdditions),
        hasRealDeletions |-> Bool(hasRealDeletions),
        hasResourceChanges |-> Bool(hasResourceChanges)]

\* String.prototype.includes on token sequences
Includes(body, m) ==
    \E i \in 0..(Len(body) - Len(m)) : SubSeq(body, i + 1, i + Len(m)) = m

\* !marker || !marker.trim()
MarkerIsBlank(m) == \A i \in 1..Len(m) : m[i] = SPACE

PLAN_SLICE == 60000

\* plan.slice(0, 60000)
Slice(plan) == SubSeq(plan, 1, IF Len(plan) < PLAN_SLICE THEN Len(plan) ELSE PLAN_SLICE)

\* the comment body built by formatPlanComment; timestamp is the time of the call
Body(m, plan, enableCollapse, timestamp) ==
    LET shouldCollapse == IF enableCollapse THEN ShouldCollapsePlan(plan).shouldCollapse
                          ELSE Bool(FALSE)
    IN IF Truthy(shouldCollapse)
       THEN m \o <<NL, "#### Terraform Plan", "Worker build successful.", "<details>">>
              \o Slice(plan) \o <<"</details>", "Updated", timestamp>>
       ELSE m \o <<NL, "#### Terraform Plan">> \o Slice(plan) \o <<"Updated", timestamp>>

\* a lookup that never finds the comment of an earlier run
FindExisting_None(cs, m) == 0

\* comments.find(c => c.body.includes(marker)): the index of the first
\* comment containing the marker, 0 when there is none
FindExisting(cs, m) ==
    IF \E i \in 1..Len(cs) : Includes(cs[i].body, m)
    THEN CHOOSE i \in 1..Len(cs) :
            /\ Includes(cs[i].body, m)
            /\ \A j \in 1..(i-1) : ~Includes(cs[j].body, m)
    ELSE 0

\* the comments left after deleteComment on every comment containing the marker
RECURSIVE DeleteMatching(_, _)
DeleteMatching(cs, m) ==
    IF cs = <<>> THEN <<>>
    ELSE (IF Includes(Head(cs).body, m) THEN <<>> ELSE <<Head(cs)>>)
         \o DeleteMatching(Tail(cs), m)

----------------------------------------------------------------------------
(* Inputs *)

MaxContentLen == 5
MaxRetryMax == 3
MaxPlanLines == 1
MaxClassifiedLines == 3
MaxInvocations == 3
MaxOwnerEntries == 2
MaxReviews == 2
GateMaxReviews == 1

\* every CODEOWNERS text of at most MaxContentLen tokens
CodeownersTokens == {AT, SLASH, HASH, SPACE, NL, "org", "team"}
AllTexts == SeqUpTo(CodeownersTokens, MaxContentLen)

\* logins of PR authors
Logins == {<<"alice">>, <<"bob">>, <<"alice", BOT>>}
\* what the rules of a CODEOWNERS file name: users, or a team of an organisation
OwnerEntries ==
    <<<<AT, "alice">>, <<AT, "bob">>, <<AT, "alice", BOT>>, <<AT, "org", SLASH, "team">>>>

\* the text of a CODEOWNERS file with one rule line for each of the chosen
\* entries i, i+1, ...
RECURSIVE RuleLines(_, _)
RuleLines(i, chosen) ==
    IF i > Len(OwnerEntries) THEN <<>>
    ELSE (IF i \in chosen THEN OwnerEntries[i] \o <<NL>> ELSE <<>>)
         \o RuleLines(i + 1, chosen)

CodeownersFiles ==
    {Unreadable} \cup
    {File(RuleLines(1, chosen)) :
        chosen \in {c \in SUBSET (1..Len(OwnerEntries)) : Cardinality(c) <= MaxOwnerEntries}}

ReviewStates == {APPROVED, CHANGES_REQUESTED, DISMISSED, COMMENTED, PENDING}
Reviewers == {<<"alice">>, <<"bob">>}
AllReviews == {Review(l, st) : l \in Reviewers, st \in ReviewStates}
ReviewLists(n) == SeqUpTo(AllReviews, n)

LabelSets == SUBSET {OVERRIDE_LABEL, "documentation"}
PullRequests ==
    {[number |-> 7, user |-> [login |-> l], labels |-> ls] :
        l \in Logins \cup {NoLogin}, ls \in LabelSets}
Contexts == {Absent} \cup PullRequests
\* checkCodeownersApproval is reached only for a PR carrying the override label
\* (or, called on its own, outside a pull_request event)
ApprovalContexts == {Absent} \cup {pr \in PullRequests : pr.labels = {OVERRIDE_LABEL}}

Percents == {0, 70, 80}
Thresholds == {70, 80}
PercentFields == {Absent, Str} \cup {Num(n) : n \in Percents}
LineFields == {Absent, Str, Num(0), Num(12)}
CrashFields == {Absent, Str, Bool(TRUE), Bool(FALSE)}
ReportObjects ==
    [total_percent_covered : PercentFields, total_num_lines : LineFields,
     crash_fallback : CrashFields]
Reports == {ENOENT, InvalidJSON, Json(Null)} \cup {Json(d) : d \in ReportObjects}

\* markers: none, whitespace only, and two module markers
Markers == {<<>>, <<SPACE>>, <<"<!-- tf-plan:workers -->">>, <<SPACE, "<!-- tf-plan:dns -->">>}
ExitCodes == {"0", "1", "2"}
Plans == SeqUpTo(PlanLines, MaxPlanLines)
ClassifiedPlans == SeqUpTo(ClassifiedLines, MaxClassifiedLines)
\* comments already on the PR, none of them made by formatPlanComment
OtherComments == {<<>>, <<[id |-> 1, body |-> <<"LGTM">>]>>}

----------------------------------------------------------------------------
(* State machine *)

Init ==
    /\ op = "idle"
    /\ codeownersFile = Unreadable
    /\ owners = Absent
    /\ pull_request = Absent
    /\ reviews = <<>>
    /\ listReviewsCalls = 0
    /\ approval = Absent
    /\ report = ENOENT
    /\ threshold = 0
    /\ decision = Absent
    /\ CURL_RETRY_MAX = 0
    /\ attempt = 0
    /\ exit_code = 0
    /\ curlPc = "idle"
    /\ curlCodes = <<>>
    /\ returned = Absent
    /\ comments = <<>>
    /\ nextId = 1
    /\ clock = 0
    /\ issue = Absent
    /\ marker = <<>>
    /\ lastCall = Absent
    /\ planText = <<>>
    /\ collapse = Absent

\* a call of parseCodeowners on a CODEOWNERS file
ParseCodeownersCall ==
    /\ op = "idle"
    /\ \E file \in {Unreadable} \cup {File(text) : text \in AllTexts} :
          /\ codeownersFile' = file
          /\ owners' = ParseCodeowners(file)
    /\ op' = "parseCodeowners"
    /\ UNCHANGED <<gateVars, curlVars, commentVars, planVars>>

\* a call of checkCodeownersApproval(github, context)
CheckCodeownersApprovalCall ==
    /\ op = "idle"
    /\ \E pr \in ApprovalContexts, file \in CodeownersFiles,
          ghReviews \in ReviewLists(MaxReviews) :
          LET call == CheckCodeownersApproval(pr, ghReviews, file)
          IN /\ pull_request' = pr
             /\ codeownersFile' = file
             /\ owners' = call.owners
             /\ reviews' = call.reviews
             /\ listReviewsCalls' = call.lookups
             /\ approval' = Bool(call.result)
    /\ op' = "checkCodeownersApproval"
    /\ UNCHANGED <<report, threshold, decision, curlVars, commentVars, planVars>>

\* a call of analyzeCoverageResults({reportPath, threshold, context, github})
AnalyzeCoverageResultsCall ==
    /\ op = "idle"
    /\ \E reportFile \in Reports, thr \in Thresholds, pr \in Contexts,
          file \in CodeownersFiles :
       \* the reviews on the PR are drawn only when the call looks them up
       \E ghReviews \in
             IF AnalyzeCoverageResults(reportFile, thr, pr, <<>>, file).call.lookups = 0
             THEN {<<>>} ELSE ReviewLists(GateMaxReviews) :
          LET r == AnalyzeCoverageResults(reportFile, thr, pr, ghReviews, file)
          IN /\ report' = reportFile
             /\ threshold' = thr
             /\ pull_request' = pr
             /\ codeownersFile' = file
             /\ decision' = r.decision
             /\ owners' = r.call.owners
             /\ reviews' = r.call.reviews
             /\ listReviewsCalls' = r.call.lookups
             /\ approval' = IF r.call.called THEN Bool(r.call.result) ELSE Absent
    /\ op' = "analyzeCoverageResults"
    /\ UNCHANGED <<curlVars, commentVars, planVars>>

\* curl_with_retry is called: the locals are initialised (CURL_RETRY_MAX is
\* read from the environment)
CurlWithRetryCall ==
    /\ op = "idle"
    /\ curlPc = "idle"
    /\ \E max \in 0..MaxRetryMax : CURL_RETRY_MAX' = max
    /\ attempt' = 1
    /\ exit_code' = 0
    /\ curlPc' = "while"
    /\ op' = "curl_with_retry"
    /\ UNCHANGED <<curlCodes, returned, codeownersFile, owners, gateVars,
                   commentVars, planVars>>

\* one iteration of the while loop: curl runs and exits with some code
CurlAttempt ==
    /\ curlPc = "while"
    /\ attempt <= CURL_RETRY_MAX
    /\ \E code \in CurlExitCodes :
          /\ exit_code' = code
          /\ curlCodes' = Append(curlCodes, code)
          /\ IF code = 0
             THEN /\ returned' = Num(0)
                  /\ curlPc' = "returned"
                  /\ attempt' = attempt
             ELSE IF ~Retryable(code)
             THEN /\ returned' = Num(code)
                  /\ curlPc' = "returned"
                  /\ attempt' = attempt
             ELSE /\ returned' = returned
                  /\ curlPc' = "while"
                  /\ attempt' = attempt + 1
    /\ UNCHANGED <<op, CURL_RETRY_MAX, codeownersFile, owners, gateVars,
                   commentVars, planVars>>

\* the loop condition fails: the statements after the loop
CurlExhausted ==
    /\ curlPc = "while"
    /\ ~(attempt <= CURL_RETRY_MAX)
    /\ returned' = Num(exit_code)
    /\ curlPc' = "returned"
    /\ UNCHANGED <<op, CURL_RETRY_MAX, attempt, exit_code, curlCodes,
                   codeownersFile, owners, gateVars, commentVars, planVars>>

NextCurl == CurlWithRetryCall \/ CurlAttempt \/ CurlExhausted
SpecCurl == Init /\ [][NextCurl]_vars

\* a workflow run starts on an event: the comments other people left on the
\* PR, the issue number of the context and the marker of the terraform module
WorkflowRun ==
    /\ op = "idle"
    /\ \E cs \in OtherComments, m \in Markers, n \in {Absent, Num(7)} :
          /\ comments' = cs
          /\ nextId' = Len(cs) + 1
          /\ marker' = m
          /\ issue' = n
    /\ op' = "workflow"
    /\ UNCHANGED <<clock, lastCall, codeownersFile, owners, gateVars, curlVars,
                   planVars>>

\* formatPlanComment({github, context, planFilePath, exitcode, marker, enableCollapse, ...})
FormatPlanComment ==
    /\ op \in {"workflow", "formatPlanComment"}
    /\ clock < MaxInvocations
    /\ clock' = clock + 1
    /\ op' = "formatPlanComment"
    /\ \E exitcode \in ExitCodes, plan \in Plans, enableCollapse \in BOOLEAN :
          IF issue = Absent
          THEN /\ lastCall' = [exitcode |-> exitcode, outcome |-> "skipped"]
               /\ UNCHANGED <<comments, nextId>>
          ELSE IF MarkerIsBlank(marker)
          THEN /\ lastCall' = [exitcode |-> exitcode, outcome |-> "threw"]
               /\ UNCHANGED <<comments, nextId>>
          ELSE IF exitcode = "0"
          THEN /\ comments' = DeleteMatching(comments, marker)
               /\ lastCall' = [exitcode |-> exitcode, outcome |-> "deleted"]
               /\ UNCHANGED nextId
          ELSE LET body == Body(marker, plan, enableCollapse, clock')
                   existing == FindExisting(comments, marker)
               IN IF existing # 0
                  THEN /\ comments' = [comments EXCEPT ![existing].body = body]
                       /\ lastCall' = [exitcode |-> exitcode, outcome |-> "updated",
                                       id |-> comments[existing].id]
                       /\ UNCHANGED nextId
                  ELSE /\ comments' = Append(comments, [id |-> nextId, body |-> body])
                       /\ lastCall' = [exitcode |-> exitcode, outcome |-> "created",
                                       id |-> nextId]
                       /\ nextId' = nextId + 1
    /\ UNCHANGED <<issue, marker, codeownersFile, owners, gateVars, curlVars,
                   planVars>>

NextComment == WorkflowRun \/ FormatPlanComment
SpecComment == Init /\ [][NextComment]_vars

\* a call of shouldCollapsePlan(plan)
ShouldCollapsePlanCall ==
    /\ op = "idle"
    /\ \E text \in ClassifiedPlans :
          /\ planText' = text
          /\ collapse' = ShouldCollapsePlan(text)
    /\ op' = "shouldCollapsePlan"
    /\ UNCHANGED <<codeownersFile, owners, gateVars, curlVars, commentVars>>

NextPlan == ShouldCollapsePlanCall
SpecPlan == Init /\ [][NextPlan]_vars

NextOwners == ParseCodeownersCall
Next == AnalyzeCoverageResultsCall

SpecOwners == Init /\ [][NextOwners]_vars
Spec == Init /\ [][Next]_vars
NextOverride == CheckCodeownersApprovalCall \/ AnalyzeCoverageResultsCall
SpecOverride == Init /\ [][NextOverride]_vars

----------------------------------------------------------------------------
(* Properties of analyzeCoverageResults *)

Analyzed == op = "analyzeCoverageResults"

\* the report is valid JSON of an object carrying both numeric fields
ReportValid ==
    /\ report.t = "json"
    /\ report.data # Null
    /\ report.data.total_percent_covered.t = "number"
    /\ report.data.total_num_lines.t = "number"

ReportCrashed == report.data.crash_fallback = Bool(TRUE)
PrLabels == IF pull_request = Absent THEN {} ELSE pull_request.labels
OverrideLabelled == OVERRIDE_LABEL \in PrLabels

\* C1: a valid report with crash_fallback === true always fails the gate,
\* whatever the line count, the percent, the threshold, the labels and the
\* reviews, and no review lookup is made.
C1_CrashNeverPasses ==
    (Analyzed /\ ReportValid /\ ReportCrashed)
        => /\ decision.shouldFail = TRUE
           /\ listReviewsCalls = 0
           /\ approval = Absent

\* a crashed doc-only report at or above the threshold on an override-labelled PR
C1_Witness ==
    /\ Analyzed /\ ReportValid /\ ReportCrashed
    /\ report.data.total_num_lines = Num(0)
    /\ report.data.total_percent_covered.v >= threshold
    /\ OverrideLabelled
    /\ decision.shouldFail = TRUE

\* C2: every decision carries shouldFail as a boolean, and a report that is
\* missing, unparsable or without both numeric fields fails with the reason
\* naming the missing/invalid report, whatever threshold, labels and reviews.
C2_InvalidReportFails ==
    Analyzed
        => /\ Has(decision, "shouldFail")
           /\ decision.shouldFail \in BOOLEAN
           /\ ~ReportValid
                => /\ decision.shouldFail = TRUE
                   /\ decision.reason = ReasonInvalid
                   /\ listReviewsCalls = 0

\* the report {} on an override-labelled PR
C2_Witness ==
    /\ Analyzed
    /\ report = Json([total_percent_covered |-> Absent, total_num_lines |-> Absent,
                      crash_fallback |-> Absent])
    /\ OverrideLabelled
    /\ decision.shouldFail = TRUE

\* C3 as stated: every report whose total_num_lines is 0, the report
\* {total_num_lines: 0} included, passes with coveragePercent 100.
C3_Original ==
    (Analyzed /\ report.t = "json" /\ report.data # Null
        /\ report.data.total_num_lines = Num(0))
        => /\ decision.shouldFail = FALSE
           /\ decision.coveragePercent = Num(100)

\* C3 amended: a report with zero executable lines passes with coveragePercent
\* 100, whatever threshold, labels and reviews, provided it also carries a
\* numeric total_percent_covered and crash_fallback is not true; the report
\* {total_num_lines: 0} with no other field is invalid and fails.
C3_DocOnlyPasses ==
    /\ (Analyzed /\ ReportValid /\ ~ReportCrashed
           /\ report.data.total_num_lines = Num(0))
          => /\ decision.shouldFail = FALSE
             /\ decision.coveragePercent = Num(100)
             /\ listReviewsCalls = 0
    /\ (Analyzed
           /\ report = Json([total_percent_covered |-> Absent,
                             total_num_lines |-> Num(0),
                             crash_fallback |-> Absent]))
          => decision.shouldFail = TRUE

\* a valid doc-only report below the threshold on a PR without the label
C3_Witness ==
    /\ Analyzed /\ ReportValid /\ ~ReportCrashed
    /\ report.data.total_num_lines = Num(0)
    /\ report.data.total_percent_covered.v < threshold
    /\ ~OverrideLabelled
    /\ decision.coveragePercent = Num(100)

BelowThresholdCase ==
    /\ Analyzed /\ ReportValid /\ ~ReportCrashed
    /\ report.data.total_num_lines.v > 0
    /\ report.data.total_percent_covered.v < threshold

EventNames == [i \in 1..Len(decision.telemetryEvents) |-> decision.telemetryEvents[i].event]

\* C4: below the threshold the gate passes only with the override label and a
\* true checkCodeownersApproval, then with overrideApplied and exactly one
\* coverage_override_applied event; with the label and no approval it fails
\* with exactly one coverage_override_without_approval event; without the
\* label it fails with no event and without consulting reviews.
C4_OverrideNeedsLabelAndApproval ==
    BelowThresholdCase
        => /\ decision.shouldFail = FALSE
                => /\ OverrideLabelled
                   /\ approval = Bool(TRUE)
                   /\ Has(decision, "overrideApplied")
                   /\ decision.overrideApplied = TRUE
                   /\ EventNames = <<"coverage_override_applied">>
           /\ (OverrideLabelled /\ approval = Bool(FALSE))
                => /\ decision.shouldFail = TRUE
                   /\ EventNames = <<"coverage_override_without_approval">>
           /\ ~OverrideLabelled
                => /\ decision.shouldFail = TRUE
                   /\ EventNames = <<>>
                   /\ listReviewsCalls = 0
                   /\ approval = Absent

\* coverage 70 against threshold 80 with the label, approved by a review
C4_Witness ==
    /\ BelowThresholdCase
    /\ report.data.total_percent_covered = Num(70) /\ threshold = 80
    /\ OverrideLabelled
    /\ reviews # <<>>
    /\ approval = Bool(TRUE)
    /\ decision.shouldFail = FALSE

----------------------------------------------------------------------------
(* Properties of checkCodeownersApproval *)

\* a call of checkCodeownersApproval has returned (on its own or inside the gate)
ApprovalDecided == approval # Absent

OwnerSet == IF owners # Absent /\ owners # Null THEN owners.members ELSE {}
PrAuthor == IF pull_request = Absent THEN NoLogin ELSE pull_request.user.login

\* login l ends in "-bot" and base is l without that ending
IsBotOf(l, base) ==
    /\ l # NoLogin
    /\ Len(l) = Len(base) + 1
    /\ l[Len(l)] = BOT
    /\ \A i \in 1..Len(base) : l[i] = base[i]

\* one owner, who is the PR author or the author's login without "-bot"
SoloCase ==
    /\ Cardinality(OwnerSet) = 1
    /\ \E o \in OwnerSet : o = PrAuthor \/ IsBotOf(PrAuthor, o)

\* the last review of login l, in fetch order, among those with a meaningful
\* state is an approval
LastMeaningfulIsApproval(l) ==
    \E i \in 1..Len(reviews) :
        /\ reviews[i].user.login = l
        /\ reviews[i].state = APPROVED
        /\ \A j \in (i+1)..Len(reviews) :
              reviews[j].user.login = l
                 => reviews[j].state \notin {APPROVED, CHANGES_REQUESTED, DISMISSED}

QualifyingApproval ==
    \E l \in OwnerSet : l # PrAuthor /\ LastMeaningfulIsApproval(l)

GateOverrideCase == BelowThresholdCase /\ OverrideLabelled

\* C5: with a non-empty owner set and no solo-developer exception,
\* checkCodeownersApproval returns true iff some login other than the PR
\* author is in the owner set and its last review with a state in {APPROVED,
\* CHANGES_REQUESTED, DISMISSED} is APPROVED; in the gate the below-threshold
\* labelled PR then fails exactly when there is no such login.
C5_ApprovalIffLatestMeaningfulApproved ==
    (ApprovalDecided /\ OwnerSet # {} /\ ~SoloCase)
        => /\ approval = Bool(QualifyingApproval)
           /\ GateOverrideCase => (decision.shouldFail = ~QualifyingApproval)

\* two codeowners, one approved and then requested changes, the other only
\* commented: no approval
C5_Witness ==
    /\ op = "checkCodeownersApproval"
    /\ OwnerSet = {<<"alice">>, <<"bob">>}
    /\ PrAuthor = <<"alice", BOT>>
    /\ reviews = <<Review(<<"bob">>, APPROVED), Review(<<"bob">>, CHANGES_REQUESTED)>>
    /\ approval = Bool(FALSE)

\* every owner is named by a mention that is not the organisation part of a
\* team entry
IsIndividualMention(text, h) ==
    \E i \in 1..Len(text) :
        /\ text[i] = AT
        /\ i + Len(h) <= Len(text)
        /\ SubSeq(text, i + 1, i + Len(h)) = h
        /\ (i + Len(h) + 1 <= Len(text))
              => text[i + Len(h) + 1] \notin WordTokens \cup {SLASH}

\* C6: parseCodeowners returns only individual user handles: a team entry
\* @org/team contributes no member to the owner set.
C6_TeamEntriesExcluded ==
    (op = "parseCodeowners" /\ codeownersFile # Unreadable)
        => \A h \in OwnerSet : IsIndividualMention(codeownersFile.text, h)

\* C7: checkCodeownersApproval returns false for every review list and author
\* when the CODEOWNERS file cannot be read, when the owner set is empty and
\* when there is no pull request; the labelled below-threshold PR then fails.
C7_FailClosed ==
    (ApprovalDecided
        /\ (codeownersFile = Unreadable \/ OwnerSet = {} \/ pull_request = Absent))
        => /\ approval = Bool(FALSE)
           /\ GateOverrideCase => decision.shouldFail = TRUE

\* an unreadable CODEOWNERS file and an approving review of a non-author
C7_Witness ==
    /\ op = "checkCodeownersApproval"
    /\ codeownersFile = Unreadable
    /\ pull_request # Absent
    /\ \E i \in 1..Len(reviews) :
          reviews[i].state = APPROVED /\ reviews[i].user.login # PrAuthor
    /\ approval = Bool(FALSE)

\* C8: without a qualifying approving review checkCodeownersApproval returns
\* true exactly in the solo case (one owner, equal to the PR author or to the
\* author's login without a trailing "-bot"); in the solo case it returns
\* true whatever the reviews, and the labelled below-threshold PR passes with
\* overrideApplied.
C8_SoloDeveloperException ==
    ApprovalDecided
        => /\ SoloCase => approval = Bool(TRUE)
           /\ (approval = Bool(TRUE) /\ ~QualifyingApproval) => SoloCase
           /\ (SoloCase /\ GateOverrideCase)
                => /\ decision.shouldFail = FALSE
                   /\ Has(decision, "overrideApplied")
                   /\ decision.overrideApplied = TRUE

\* the bot of the sole codeowner opens the PR, nobody reviews, the gate passes
C8_Witness ==
    /\ Analyzed /\ GateOverrideCase
    /\ report.data.total_percent_covered = Num(70) /\ threshold = 80
    /\ OwnerSet = {<<"alice">>}
    /\ PrAuthor = <<"alice", BOT>>
    /\ reviews = <<>>
    /\ decision.shouldFail = FALSE

----------------------------------------------------------------------------
(* Properties of curl_with_retry *)

CurlReturned == curlPc = "returned"
SomeCurlSucceeded == \E i \in 1..Len(curlCodes) : curlCodes[i] = 0

\* C9: curl runs at most CURL_RETRY_MAX times, a further attempt follows only
\* an exit code in {7, 28, 56}, and the function returns 0 iff some curl
\* invocation exited 0, otherwise the exit code of the last invocation.
C9_RetrySemantics ==
    /\ Len(curlCodes) <= CURL_RETRY_MAX
    /\ \A i \in 1..(Len(curlCodes) - 1) : curlCodes[i] \in {7, 28, 56}
    /\ CurlReturned
          => /\ (returned = Num(0)) <=> SomeCurlSucceeded
             /\ ~SomeCurlSucceeded
                   => /\ curlCodes # <<>>
                      /\ returned = Num(curlCodes[Len(curlCodes)])

----------------------------------------------------------------------------
(* Properties of formatPlanComment *)

MarkerComments == {i \in 1..Len(comments) : Includes(comments[i].body, marker)}
MarkerCount == Cardinality(MarkerComments)
Invoked == op = "formatPlanComment"
CommentIds(cs) == {cs[i].id : i \in 1..Len(cs)}

\* C10 as stated: on a PR, for every non-empty marker, the comments containing
\* the marker number one after an invocation with exitcode other than '0' and
\* none after an invocation with exitcode '0'.
C10_Original ==
    (Invoked /\ issue # Absent /\ marker # <<>>)
        => /\ lastCall.exitcode # "0" => MarkerCount = 1
           /\ lastCall.exitcode = "0" => MarkerCount = 0

\* after an invocation on a PR with a marker that is not blank
C10_OneCommentAfterCall ==
    (Invoked /\ issue # Absent /\ ~MarkerIsBlank(marker))
        => /\ lastCall.exitcode # "0" => MarkerCount = 1
           /\ lastCall.exitcode = "0" => MarkerCount = 0

\* what one invocation on a PR with a marker that is not blank does
C10_CreateThenUpdate ==
    (clock' = clock + 1 /\ issue # Absent /\ ~MarkerIsBlank(marker))
        => /\ (lastCall'.exitcode # "0" /\ MarkerCount = 0)
                => /\ lastCall'.outcome = "created"
                   /\ Len(comments') = Len(comments) + 1
                   /\ lastCall'.id \notin CommentIds(comments)
           /\ (lastCall'.exitcode # "0" /\ MarkerCount = 1)
                => /\ lastCall'.outcome = "updated"
                   /\ CommentIds(comments') = CommentIds(comments)
                   /\ Len(comments') = Len(comments)
                   /\ \A i \in MarkerComments : lastCall'.id = comments[i].id
           /\ lastCall'.exitcode = "0"
                => /\ CommentIds(comments') \subseteq CommentIds(comments)
                   /\ \A i \in 1..Len(comments') :
                         ~Includes(comments'[i].body, marker)

\* C10 amended: starting from a PR with no comment containing the marker,
\* after any number of sequential invocations with the same marker that is not
\* blank (it has a character other than whitespace) and exitcode other than
\* '0', exactly one comment contains the marker: the first invocation creates
\* it, every later one updates that same comment; after an invocation with
\* exitcode '0' no comment contains the marker and none is created.
C10_Idempotent == []C10_OneCommentAfterCall /\ [][C10_CreateThenUpdate]_vars

\* the third invocation in a row updated the one marker comment, next to the
\* comment somebody else left
C10_Witness ==
    /\ Invoked /\ issue # Absent /\ ~MarkerIsBlank(marker)
    /\ clock = 3
    /\ lastCall.outcome = "updated"
    /\ Len(comments) = 2
    /\ MarkerCount = 1

----------------------------------------------------------------------------
(* Properties of shouldCollapsePlan *)

Classified == op = "shouldCollapsePlan"

SummaryLines == {i \in 1..Len(planText) : LineFacts(planText[i]).kind = "summary"}

\* the summary of the plan text (its first summary line) reads
\* "0 to add, N to change, 0 to destroy" with N > 0
SummaryOnlyUpdates ==
    \E i \in SummaryLines :
        /\ \A j \in SummaryLines : i <= j
        /\ planText[i] \in {L_ONLY_UPDATES, L_TEN_UPDATES}

\* the text contains the marker
TextContains(text) ==
    \E i \in 1..Len(planText) :
        \/ text = "will be created" /\ planText[i] = L_CREATED
        \/ text = "will be destroyed" /\ planText[i] = L_DESTROYED
        \/ text = "must be replaced" /\ planText[i] = L_REPLACED

\* C11: shouldCollapse is a boolean, and it is true iff the summary is
\* "0 to add, N to change, 0 to destroy" with N > 0 (hasOnlyUpdates),
\* hasRealAdditions and hasRealDeletions are false, changedAttrs is non-empty
\* with every name content or content_sha256, and the text contains none of
\* 'will be created', 'will be destroyed', 'must be replaced'; so a plan
\* containing 'will be created' and a plan without summary line never collapse.
C11_CollapseIffCodeOnly ==
    Classified
        => /\ collapse.shouldCollapse \in {Bool(TRUE), Bool(FALSE)}
           /\ (collapse.hasOnlyUpdates = Bool(TRUE)) <=> SummaryOnlyUpdates
           /\ (collapse.shouldCollapse = Bool(TRUE))
                <=> /\ SummaryOnlyUpdates
                    /\ collapse.hasRealAdditions = Bool(FALSE)
                    /\ collapse.hasRealDeletions = Bool(FALSE)
                    /\ collapse.changedAttrs # <<>>
                    /\ \A k \in 1..Len(collapse.changedAttrs) :
                          collapse.changedAttrs[k] \in {"content", "content_sha256"}
                    /\ ~TextContains("will be created")
                    /\ ~TextContains("will be destroyed")
                    /\ ~TextContains("must be replaced")
           /\ TextContains("will be created") => collapse.shouldCollapse = Bool(FALSE)
           /\ SummaryLines = {} => collapse.shouldCollapse = Bool(FALSE)

\* a plan of one code change and a computed id above the summary of ten
\* updates collapses
C11_Witness ==
    /\ Classified
    /\ planText = <<L_CHANGE_SHA, L_CHANGE_COMPUTED, L_TEN_UPDATES>>
    /\ collapse.changedAttrs = <<"content_sha256">>
    /\ collapse.shouldCollapse = Bool(TRUE)

====
